---------------------------- MODULE Spec2Model ----------------------------
(***************************************************************************)
(* Model of ThreadComputer (src/src/ts/thread-computer.ts): the greedy     *)
(* thread path planner, its peg layout and its hidden-canvas luminance     *)
(* field.                                                                  *)
(*                                                                         *)
(* Numbers.  The source computes in IEEE doubles.  The model computes in   *)
(* fixed point: a real number r is the integer floor(r * FP).  Pixel       *)
(* values (Uint8ClampedArray cells) are plain integers 0..255.  The        *)
(* working resolution HIDDEN_CANVAS_SIZE is 256 in the source; the model   *)
(* checks a scaled-down working resolution, the same code run on a         *)
(* smaller canvas.                                                         *)
(*                                                                         *)
(* Pegs of the path are references in the source (object identity); the    *)
(* model holds them as indices into pegs (0 is JavaScript's null).         *)
(***************************************************************************)
EXTENDS Integers, Sequences, FiniteSets, TLC

\* ------------------------------------------------------------------ bounds
\* working resolution of the hidden canvas (256 in the source, line 8)
HIDDEN_CANVAS_SIZE == 6
\* fixed-point units per 1.0
FP == 1000
\* Parameters.nbLines ranges over 0..MaxLines
MaxLines == 2
\* performance.now() - start ranges over 0..MaxElapsed
MaxElapsed == 1
\* number of operations explored: calls of computeNextThreads and reset, and
\* changes of the configuration
MaxOps == 3
\* number of calls of applyCanvasCompositing explored
MaxApplied == 2

\* ------------------------------------------------------- program constants
\* -(2^53 - 1) in the source; TLC integers are 32 bits wide, the model takes
\* the least value it can hold, far below every score as the source's is
MIN_SAFE_NUMBER == -2147483647
PI == (31416 * FP) \div 10000
TWO_PI == 2 * PI
LINE_OPACITY == (512 * FP) \div 8000

RECTANGLE == "RECTANGLE"
CIRCLE == "CIRCLE"
EShape == {RECTANGLE, CIRCLE}

\* ------------------------------------------------------------ arithmetic
Abs(a) == IF a < 0 THEN -a ELSE a
Min(a, b) == IF a < b THEN a ELSE b
Max(a, b) == IF a > b THEN a ELSE b
\* Math.ceil(a / b) for integers a >= 0, b > 0
CeilDiv(a, b) == (a + b - 1) \div b
\* Math.floor and Math.ceil of a fixed-point number, as integers
Floor(x) == x \div FP
Ceil(x) == (x + FP - 1) \div FP
\* product of two fixed-point numbers
Mul(a, b) == (a * b) \div FP

clamp(x, min, max) == IF x < min THEN min ELSE IF x > max THEN max ELSE x

mix(a, b, x) == Mul(a, FP - x) + Mul(b, x)

\* Math.cos on [0, PI/2], by its Taylor polynomial of degree 8
CosFirstQuadrant(x) ==
    LET x2 == Mul(x, x)
        x4 == Mul(x2, x2)
        x6 == Mul(x4, x2)
        x8 == Mul(x4, x4)
    IN FP - x2 \div 2 + x4 \div 24 - x6 \div 720 + x8 \div 40320

\* Math.cos of an angle in [0, TWO_PI]
Cos(a) ==
    LET b == IF a > PI THEN TWO_PI - a ELSE a
    IN IF 2 * b > PI THEN -CosFirstQuadrant(PI - b) ELSE CosFirstQuadrant(b)

\* Math.sin of an angle in [0, TWO_PI]: cos(a - PI/2)
Sin(a) ==
    LET b == a - PI \div 2
    IN Cos(IF b < 0 THEN -b ELSE b)

\* ------------------------------------------------------------ peg layout
\* ThreadComputer.computeBestSize: the hidden canvas size of a source image
computeBestSize(sourceImageSize, maxSize) ==
    LET maxSourceSide == Max(sourceImageSize.width, sourceImageSize.height)
    IN [width |-> CeilDiv(sourceImageSize.width * maxSize, maxSourceSide),
        height |-> CeilDiv(sourceImageSize.height * maxSize, maxSourceSide)]

\* a faulty variant of SidePegs, whose loop runs one turn too many
RECURSIVE SidePegsOneTooMany(_, _, _, _, _)
SidePegsOneTooMany(i, nbPegsPerSide, maxAlong, maxAcross, horizontal) ==
    IF i > nbPegsPerSide THEN <<>>
    ELSE LET v == ((i * FP) \div nbPegsPerSide) * maxAlong
         IN (IF horizontal
             THEN << [x |-> v, y |-> 0], [x |-> v, y |-> maxAcross * FP] >>
             ELSE << [x |-> 0, y |-> v], [x |-> maxAcross * FP, y |-> v] >>)
            \o SidePegsOneTooMany(i + 1, nbPegsPerSide, maxAlong, maxAcross, horizontal)

\* the interior pegs of the two sides along one axis, pushed pairwise
RECURSIVE SidePegs(_, _, _, _, _)
SidePegs(i, nbPegsPerSide, maxAlong, maxAcross, horizontal) ==
    IF i >= nbPegsPerSide THEN <<>>
    ELSE LET v == ((i * FP) \div nbPegsPerSide) * maxAlong
         IN (IF horizontal
             THEN << [x |-> v, y |-> 0], [x |-> v, y |-> maxAcross * FP] >>
             ELSE << [x |-> 0, y |-> v], [x |-> maxAcross * FP, y |-> v] >>)
            \o SidePegs(i + 1, nbPegsPerSide, maxAlong, maxAcross, horizontal)

RectanglePegs(domainSize, pegsSpacing) ==
    LET maxX == domainSize.width - 1
        maxY == domainSize.height - 1
        nbPegsPerWidth == CeilDiv(domainSize.width, pegsSpacing)
        nbPegsPerHeight == CeilDiv(domainSize.height, pegsSpacing)
    IN << [x |-> 0, y |-> 0],
          [x |-> maxX * FP, y |-> 0],
          [x |-> maxX * FP, y |-> maxY * FP],
          [x |-> 0, y |-> maxY * FP] >>
       \o SidePegs(1, nbPegsPerWidth, maxX, maxY, TRUE)
       \o SidePegs(1, nbPegsPerHeight, maxY, maxX, FALSE)

CirclePegs(domainSize, pegsSpacing) ==
    LET maxSize == Max(domainSize.width, domainSize.height)
        nbPegs == CeilDiv(PI * maxSize, pegsSpacing * FP)
        baseDeltaAngle == TWO_PI \div nbPegs
    IN [iPeg \in 1..nbPegs |->
          LET angle == (iPeg - 1) * baseDeltaAngle
          IN [x |-> (domainSize.width * (FP + Cos(angle))) \div 2,
              y |-> (domainSize.height * (FP + Sin(angle))) \div 2,
              angle |-> angle]]

\* ThreadComputer.computePegs: the peg list of a shape
computePegs(domainSize, pegsShape, pegsSpacing) ==
    IF pegsShape = RECTANGLE
    THEN RectanglePegs(domainSize, pegsSpacing)
    ELSE CirclePegs(domainSize, pegsSpacing)

RectangleTooClose(peg1, peg2) ==
    peg1.x = peg2.x \/ peg1.y = peg2.y

\* a faulty variant of the circle's closure, which forgets Math.abs
CircleTooCloseSigned(peg1, peg2) ==
    LET deltaAngle == peg1.angle - peg2.angle
        minAngle == Min(deltaAngle, TWO_PI - deltaAngle)
    IN minAngle <= TWO_PI \div 16

CircleTooClose(peg1, peg2) ==
    LET absDeltaAngle == Abs(peg1.angle - peg2.angle)
        minAngle == Min(absDeltaAngle, TWO_PI - absDeltaAngle)
    IN minAngle <= TWO_PI \div 16

\* this.arePegsTooClose, the closure computePegs installs for a shape
arePegsTooClose(shape, peg1, peg2) ==
    IF shape = RECTANGLE
    THEN RectangleTooClose(peg1, peg2)
    ELSE CircleTooClose(peg1, peg2)

\* ------------------------------------------------------- luminance field
\* The source image: its size and the RGB of its pixels.
SourcePixel(image, i, j) ==
    IF image.pattern = "gray" THEN [r |-> 128, g |-> 128, b |-> 128]
    ELSE IF image.pattern = "ramp"
    THEN [r |-> 7 * (i + image.width * j), g |-> 6 * (i + image.width * j),
          b |-> 5 * (i + image.width * j)]
    ELSE IF (i + j) % 2 = 0 THEN [r |-> 30, g |-> 60, b |-> 90]
    ELSE [r |-> 255, g |-> 255, b |-> 255]

\* a store into a Uint8ClampedArray cell of num / den (num >= 0, den > 0):
\* rounded to the nearest integer, halves to the even one, clamped to 255
ToUint8Clamped(num, den) ==
    LET q == num \div den
        twice == 2 * (num % den)
        rounded == IF twice < den THEN q
                   ELSE IF twice > den THEN q + 1
                   ELSE IF q % 2 = 0 THEN q ELSE q + 1
    IN clamp(rounded, 0, 255)

\* computeAdjustedValue of resetHiddenCanvas, stored back into the canvas data
computeAdjustedValue(invertColors, r, g, b) ==
    IF invertColors
    THEN ToUint8Clamped(128 * 6 - (r + g + b), 6)
    ELSE ToUint8Clamped(r + g + b, 6)

\* index of the cell (pixelX, pixelY) in the flattened data (base / 4 in the
\* source: the three colour channels of a cell always hold the same value,
\* the model keeps one number per cell)
CellIndex(pixelX, pixelY, width) == pixelX + pixelY * width

\* ThreadComputer.resetHiddenCanvas: the hidden canvas of the source image.
\* drawImage resamples the source (nearest source pixel), every cell is then
\* replaced by its adjusted value.
resetHiddenCanvas(image, invertColors) ==
    LET wantedSize == computeBestSize(image, HIDDEN_CANVAS_SIZE)
    IN [width |-> wantedSize.width,
        height |-> wantedSize.height,
        data |-> [i \in 0..(wantedSize.width * wantedSize.height - 1) |->
                    LET px == SourcePixel(image,
                                  ((i % wantedSize.width) * image.width) \div wantedSize.width,
                                  ((i \div wantedSize.width) * image.height) \div wantedSize.height)
                    IN computeAdjustedValue(invertColors, px.r, px.g, px.b)]]

\* ThreadComputer.sampleCanvasPixel, on the CPU copy of the canvas data
sampleCanvasPixel(canvas, data, pixelX, pixelY) ==
    LET base == CellIndex(pixelX, pixelY, canvas.width)
    IN ((data[base] + data[base] + data[base]) * FP) \div 3

\* ThreadComputer.sampleCanvasData: linear interpolation
sampleCanvasData(canvas, data, coords) ==
    LET minX == clamp(Floor(coords.x), 0, canvas.width - 1)
        maxX == clamp(Ceil(coords.x), 0, canvas.width - 1)
        minY == clamp(Floor(coords.y), 0, canvas.height - 1)
        maxY == clamp(Ceil(coords.y), 0, canvas.height - 1)
        topLeft == sampleCanvasPixel(canvas, data, minX, minY)
        topRight == sampleCanvasPixel(canvas, data, maxX, minY)
        bottomLeft == sampleCanvasPixel(canvas, data, minX, maxY)
        bottomRight == sampleCanvasPixel(canvas, data, maxX, maxY)
        fractX == coords.x % FP
        top == mix(topLeft, topRight, fractX)
        bottom == mix(bottomLeft, bottomRight, fractX)
        fractY == coords.y % FP
    IN mix(top, bottom, fractY)

\* Math.ceil(Math.sqrt(squared)) for a squared fixed-point length
RECURSIVE CeilSqrtFrom(_, _)
CeilSqrtFrom(n, squared) ==
    IF (n * FP) * (n * FP) >= squared THEN n ELSE CeilSqrtFrom(n + 1, squared)

NbSamples(peg1, peg2) ==
    LET dX == peg2.x - peg1.x
        dY == peg2.y - peg1.y
    IN CeilSqrtFrom(0, dX * dX + dY * dY)

\* a score: a double, possibly NaN
Number(v) == [nan |-> FALSE, v |-> v]
NaN == [nan |-> TRUE, v |-> 0]
Greater(a, b) == ~a.nan /\ ~b.nan /\ a.v > b.v
StrictEqual(a, b) == ~a.nan /\ ~b.nan /\ a.v = b.v

RECURSIVE SumContributions(_, _, _, _, _, _)
SumContributions(canvas, data, peg1, peg2, nbSamples, iSample) ==
    IF iSample >= nbSamples THEN 0
    ELSE LET r == ((iSample + 1) * FP) \div (nbSamples + 1)
             sample == [x |-> peg1.x + Mul(peg2.x - peg1.x, r),
                        y |-> peg1.y + Mul(peg2.y - peg1.y, r)]
             imageValue == sampleCanvasData(canvas, data, sample)
             finalValue == imageValue + (LINE_OPACITY * 255) \div 2
             contribution == 127 * FP - finalValue
         IN contribution
            + SumContributions(canvas, data, peg1, peg2, nbSamples, iSample + 1)

\* ThreadComputer.computeThreadPotential: the higher, the better the thread
computeThreadPotential(canvas, data, peg1, peg2) ==
    LET nbSamples == NbSamples(peg1, peg2)
    IN IF nbSamples = 0 THEN NaN
       ELSE Number(SumContributions(canvas, data, peg1, peg2, nbSamples, 0)
                   \div nbSamples)

\* the cells a stroke of width 1 from peg1 to peg2 covers: the cells of the
\* canvas holding a point of the segment (taken every half pixel at most)
StrokeCells(canvas, peg1, peg2) ==
    LET nbPoints == 2 * NbSamples(peg1, peg2) + 1
        point(k) == [x |-> peg1.x + ((peg2.x - peg1.x) * k) \div nbPoints,
                     y |-> peg1.y + ((peg2.y - peg1.y) * k) \div nbPoints]
    IN {CellIndex(Floor(point(k).x), Floor(point(k).y), canvas.width) :
          k \in {k \in 0..nbPoints :
                   /\ Floor(point(k).x) \in 0..(canvas.width - 1)
                   /\ Floor(point(k).y) \in 0..(canvas.height - 1)}}

\* source-over compositing of white at opacity 0.5 * LINE_OPACITY on a cell
BlendWhite(old) ==
    ToUint8Clamped(old * (FP - LINE_OPACITY \div 2) + 255 * (LINE_OPACITY \div 2), FP)

\* ThreadComputer.drawThreadOnHiddenCanvas: the canvas data after the stroke
drawThreadOnHiddenCanvas(canvas, peg1, peg2) ==
    LET cells == StrokeCells(canvas, peg1, peg2)
    IN [canvas EXCEPT !.data =
          [i \in DOMAIN canvas.data |->
             IF i \in cells THEN BlendWhite(canvas.data[i]) ELSE canvas.data[i]]]

\* --------------------------------------------------------- path planner
\* a faulty variant of nbSegments, which counts the pegs
nbSegmentsCountingPegs(path) == Len(path)

\* ThreadComputer.nbSegments
nbSegments(path) == IF Len(path) > 1 THEN Len(path) - 1 ELSE 0

\* JavaScript's null: as a peg of the path, and as a thread
NullPeg == 0
NullThread == [peg1 |-> NullPeg, peg2 |-> NullPeg]

\* randomItem: the values it can return
randomItem(list, null) ==
    IF Len(list) = 0 THEN {null}
    ELSE {list[randomIndex + 1] : randomIndex \in 0..(Len(list) - 1)}

\* ThreadComputer.uploadCanvasDataToCPU: the CPU copy after the call
\* (<<>> is null, <<data>> a copy of the canvas data)
uploadCanvasDataToCPU(canvas, cpuData) ==
    IF cpuData = <<>> THEN <<canvas.data>> ELSE cpuData

\* a faulty variant of KeepBest, which forgets the candidates it held when
\* another one ties with them
KeepBestDroppingTies(best, candidate, candidateScore) ==
    IF Greater(candidateScore, best.bestScore) \/ StrictEqual(candidateScore, best.bestScore)
    THEN [bestScore |-> candidateScore, candidates |-> <<candidate>>]
    ELSE best

\* the if / else-if both searches apply to one candidate and its score
KeepBest(best, candidate, candidateScore) ==
    IF Greater(candidateScore, best.bestScore)
    THEN [bestScore |-> candidateScore, candidates |-> <<candidate>>]
    ELSE IF StrictEqual(candidateScore, best.bestScore)
    THEN [best EXCEPT !.candidates = Append(@, candidate)]
    ELSE best

NoCandidate == [bestScore |-> Number(MIN_SAFE_NUMBER), candidates |-> <<>>]

\* The for loops below run their iterations in order, starting from best.  A
\* range of several iterations is run as its first half followed by its second
\* half; the test on the first half's result always holds, it only makes TLC
\* finish the first half before it enters the second (TLC evaluates operator
\* arguments on demand, and a loop of a few hundred pending iterations
\* exhausts its stack).

\* the body of the inner loop of computeBestStartingThread
StartingThreadBody(canvas, data, pegList, shape, iPegId1, iPegId2, best) ==
    IF ~arePegsTooClose(shape, pegList[iPegId1], pegList[iPegId2])
    THEN KeepBest(best, [peg1 |-> iPegId1, peg2 |-> iPegId2],
             computeThreadPotential(canvas, data, pegList[iPegId1], pegList[iPegId2]))
    ELSE best

\* the inner loop of computeBestStartingThread: iPegId2 from low to high
RECURSIVE StartingThreadInnerLoop(_, _, _, _, _, _, _, _)
StartingThreadInnerLoop(canvas, data, pegList, shape, iPegId1, low, high, best) ==
    IF low > high THEN best
    ELSE IF low = high
    THEN StartingThreadBody(canvas, data, pegList, shape, iPegId1, low, best)
    ELSE LET lowHalf == StartingThreadInnerLoop(canvas, data, pegList, shape, iPegId1,
                                                low, (low + high) \div 2, best)
         IN IF Len(lowHalf.candidates) >= 0
            THEN StartingThreadInnerLoop(canvas, data, pegList, shape, iPegId1,
                                         (low + high) \div 2 + 1, high, lowHalf)
            ELSE lowHalf

\* the outer loop of computeBestStartingThread: iPegId1 from first to last
RECURSIVE StartingThreadLoop(_, _, _, _, _, _, _)
StartingThreadLoop(canvas, data, pegList, shape, first, last, best) ==
    IF first > last THEN best
    ELSE IF first = last
    THEN StartingThreadInnerLoop(canvas, data, pegList, shape, first, first + 1,
                                 Len(pegList), best)
    ELSE LET firstHalf == StartingThreadLoop(canvas, data, pegList, shape,
                                             first, (first + last) \div 2, best)
         IN IF Len(firstHalf.candidates) >= 0
            THEN StartingThreadLoop(canvas, data, pegList, shape,
                                    (first + last) \div 2 + 1, last, firstHalf)
            ELSE firstHalf

\* ThreadComputer.computeBestStartingThread: the candidates randomItem draws from
computeBestStartingThread(canvas, data, pegList, shape) ==
    StartingThreadLoop(canvas, data, pegList, shape, 1, Len(pegList), NoCandidate).candidates

\* a faulty variant of NextPegBody, which scores the pegs too close as well
NextPegBodyUnfiltered(canvas, data, pegList, shape, currentPeg, iPegId, best) ==
    KeepBest(best, iPegId,
             computeThreadPotential(canvas, data, pegList[currentPeg], pegList[iPegId]))

\* a faulty variant of NextPegBody, which only looks at the pegs after the
\* current one
NextPegBodyForwardOnly(canvas, data, pegList, shape, currentPeg, iPegId, best) ==
    IF iPegId > currentPeg /\ ~arePegsTooClose(shape, pegList[currentPeg], pegList[iPegId])
    THEN KeepBest(best, iPegId,
             computeThreadPotential(canvas, data, pegList[currentPeg], pegList[iPegId]))
    ELSE best

\* the body of the loop of computeBestNextPeg
NextPegBody(canvas, data, pegList, shape, currentPeg, iPegId, best) ==
    IF ~arePegsTooClose(shape, pegList[currentPeg], pegList[iPegId])
    THEN KeepBest(best, iPegId,
             computeThreadPotential(canvas, data, pegList[currentPeg], pegList[iPegId]))
    ELSE best

\* the loop of computeBestNextPeg: the pegs from from to to
RECURSIVE NextPegLoop(_, _, _, _, _, _, _, _)
NextPegLoop(canvas, data, pegList, shape, currentPeg, from, to, best) ==
    IF from > to THEN best
    ELSE IF from = to
    THEN NextPegBody(canvas, data, pegList, shape, currentPeg, from, best)
    ELSE LET fromHalf == NextPegLoop(canvas, data, pegList, shape, currentPeg,
                                     from, (from + to) \div 2, best)
         IN IF Len(fromHalf.candidates) >= 0
            THEN NextPegLoop(canvas, data, pegList, shape, currentPeg,
                             (from + to) \div 2 + 1, to, fromHalf)
            ELSE fromHalf

\* ThreadComputer.computeBestNextPeg: the candidates randomItem draws from
computeBestNextPeg(canvas, data, pegList, shape, currentPeg) ==
    NextPegLoop(canvas, data, pegList, shape, currentPeg, 1, Len(pegList),
                NoCandidate).candidates

\* ------------------------------------------------------------------ state
VARIABLES
    Parameters,            \* the page's configuration: nbLines, shape, pegsSpacing, invertColors
    sourceImage,           \* this.sourceImage
    hiddenCanvas,          \* this.hiddenCanvas and its pixels
    hiddenCanvasData,      \* this.hiddenCanvasData: <<>> (null) or <<copy of the pixels>>
    targetNbSegments,      \* this.targetNbSegments
    pegsShape,             \* this.pegsShape
    pegsSpacing,           \* this.pegsSpacing
    pegs,                  \* this.pegs
    tooCloseShape,         \* the shape whose closure this.arePegsTooClose holds
    threadPegs,            \* this.threadPegs, as indices into pegs
    pc,                    \* "idle", or "loop": inside computeNextThreads, at the while
    maxMillisecondsTaken,  \* the argument of the running computeNextThreads
    elapsed,               \* performance.now() - start, as last read
    returned,              \* how the last computeNextThreads ended
    call,                  \* history: the running / last computeNextThreads
    lastStep,              \* history: the last computeThread
    lastOp,                \* history: the last operation on the object
    nbStrokes,             \* history: strokes drawn on the canvas since it was (re)initialised
    nbOps                  \* history: operations made

VARIABLES
    supportsAdvancedCompositing,  \* compositing.ts: the module's flag
    contexts,              \* the CanvasRenderingContext2D objects the plotters draw with
    errorMessages,         \* the ids passed to Page.Demopage.setErrorMessage, in order
    lastApply,             \* history: the last applyCanvasCompositing
    nbApplied              \* history: calls of applyCanvasCompositing made

plannerVars == << Parameters, sourceImage, hiddenCanvas, hiddenCanvasData, targetNbSegments,
                  pegsShape, pegsSpacing, pegs, tooCloseShape, threadPegs, pc,
                  maxMillisecondsTaken, elapsed, returned, call, lastStep, lastOp,
                  nbStrokes, nbOps >>
compositingVars == << supportsAdvancedCompositing, contexts, errorMessages, lastApply,
                      nbApplied >>
vars == << plannerVars, compositingVars >>

\* the inputs explored: the source images, and with each the peg layouts
Gray(width, height) == [width |-> width, height |-> height, pattern |-> "gray"]
Ramp(width, height) == [width |-> width, height |-> height, pattern |-> "ramp"]
Split(width, height) == [width |-> width, height |-> height, pattern |-> "split"]
Layout(shape, spacing) == [shape |-> shape, pegsSpacing |-> spacing]
Inputs == { [image |-> Gray(1, 1), layouts |-> {Layout(RECTANGLE, 7), Layout(CIRCLE, 32)}],
            [image |-> Ramp(6, 6), layouts |-> {Layout(CIRCLE, 1)}],
            [image |-> Split(2, 3), layouts |-> {Layout(RECTANGLE, 3), Layout(CIRCLE, 3)}],
            [image |-> Gray(8, 1), layouts |-> {Layout(RECTANGLE, 3)}] }
LayoutsOf(image) == UNION {input.layouts : input \in {i \in Inputs : i.image = image}}
Budgets == {0, MaxElapsed}

NoCall == [nbSegments |-> 0, nbLines |-> 0, threadPegs |-> <<>>, pegs |-> <<>>,
           canvas |-> <<>>, cpuData |-> <<>>, didReset |-> FALSE, nbSteps |-> 0,
           nbStrokes |-> 0, timedOut |-> FALSE]
NoStep == [kind |-> "none", threadPegs |-> <<>>, candidates |-> <<>>, data |-> <<>>]
Op(name, segmentsBefore) == [name |-> name, nbSegmentsBefore |-> segmentsBefore]

\* the state after new ThreadComputer(image, Parameters.shape, Parameters.pegsSpacing)
PlannerInit ==
    /\ sourceImage \in {input.image : input \in Inputs}
    /\ \E layout \in LayoutsOf(sourceImage), nbLines \in 0..MaxLines :
          Parameters = [nbLines |-> nbLines, shape |-> layout.shape,
                        pegsSpacing |-> layout.pegsSpacing, invertColors |-> FALSE]
    /\ hiddenCanvas = resetHiddenCanvas(sourceImage, Parameters.invertColors)
    /\ hiddenCanvasData = <<>>
    /\ targetNbSegments = 0
    /\ pegsShape = Parameters.shape
    /\ pegsSpacing = Parameters.pegsSpacing
    /\ pegs = computePegs(hiddenCanvas, pegsShape, pegsSpacing)
    /\ tooCloseShape = pegsShape
    /\ threadPegs = <<>>
    /\ pc = "idle"
    /\ maxMillisecondsTaken = 0
    /\ elapsed = 0
    /\ returned = "none"
    /\ call = NoCall
    /\ lastStep = NoStep
    /\ lastOp = Op("constructor", 0)
    /\ nbStrokes = 0
    /\ nbOps = 0

\* ------------------------------------------------- compositing.ts: state
DARKEN == "DARKEN"
LIGHTEN == "LIGHTEN"
ECompositingOperation == {DARKEN, LIGHTEN}
MONOCHROME == "MONOCHROME"
RED == "RED"
GREEN == "GREEN"
BLUE == "BLUE"
EColor == {MONOCHROME, RED, GREEN, BLUE}

\* the composite operations a canvas implementation may know: "source-over",
\* the default, always; "lighter" and "difference" or not
CompositeSupport == { {"source-over", "lighter", "difference"},
                      {"source-over", "lighter"},
                      {"source-over"} }
\* a stroke style, as the colour function written and its arguments
Style(fn, args) == [fn |-> fn, args |-> args]
\* a context as canvas.getContext("2d") returns it
NewContext(supported) ==
    [supported |-> supported, globalCompositeOperation |-> "source-over",
     strokeStyle |-> Style("#", << 0, 0, 0 >>)]
ContextIds == {1, 2}
\* the opacities passed, fixed-point numbers in [0, 1]
Opacities == {0, LINE_OPACITY, FP}
NoApply == [context |-> 0, color |-> MONOCHROME, opacity |-> 0, operation |-> DARKEN,
            advanced |-> FALSE]

\* the state after compositing.ts is loaded
CompositingLoaded ==
    /\ supportsAdvancedCompositing = TRUE
    /\ errorMessages = <<>>
    /\ lastApply = NoApply
    /\ nbApplied = 0

\* the planner, beside a compositing module that nothing calls
Init ==
    /\ PlannerInit
    /\ CompositingLoaded
    /\ contexts = [c \in ContextIds |-> NewContext({"source-over", "lighter", "difference"})]

\* --------------------------------------------------------------- actions
\* the page changes one setting of Parameters (between two calls)
SetNbLines ==
    /\ pc = "idle" /\ nbOps < MaxOps
    /\ \E n \in 0..MaxLines :
          /\ n # Parameters.nbLines
          /\ Parameters' = [Parameters EXCEPT !.nbLines = n]
    /\ nbOps' = nbOps + 1
    /\ lastOp' = Op("config", nbSegments(threadPegs))
    /\ call' = NoCall /\ lastStep' = NoStep
    /\ UNCHANGED << sourceImage, hiddenCanvas, hiddenCanvasData, targetNbSegments,
                    pegsShape, pegsSpacing, pegs, tooCloseShape, threadPegs, pc,
                    maxMillisecondsTaken, elapsed, returned, nbStrokes >>
    /\ UNCHANGED compositingVars

SetLayout ==
    /\ pc = "idle" /\ nbOps < MaxOps
    /\ \E layout \in LayoutsOf(sourceImage) :
          /\ layout # Layout(Parameters.shape, Parameters.pegsSpacing)
          /\ Parameters' = [Parameters EXCEPT !.shape = layout.shape,
                                              !.pegsSpacing = layout.pegsSpacing]
    /\ nbOps' = nbOps + 1
    /\ lastOp' = Op("config", nbSegments(threadPegs))
    /\ call' = NoCall /\ lastStep' = NoStep
    /\ UNCHANGED << sourceImage, hiddenCanvas, hiddenCanvasData, targetNbSegments,
                    pegsShape, pegsSpacing, pegs, tooCloseShape, threadPegs, pc,
                    maxMillisecondsTaken, elapsed, returned, nbStrokes >>
    /\ UNCHANGED compositingVars

SetInvertColors ==
    /\ pc = "idle" /\ nbOps < MaxOps
    /\ Parameters' = [Parameters EXCEPT !.invertColors = ~@]
    /\ nbOps' = nbOps + 1
    /\ lastOp' = Op("config", nbSegments(threadPegs))
    /\ call' = NoCall /\ lastStep' = NoStep
    /\ UNCHANGED << sourceImage, hiddenCanvas, hiddenCanvasData, targetNbSegments,
                    pegsShape, pegsSpacing, pegs, tooCloseShape, threadPegs, pc,
                    maxMillisecondsTaken, elapsed, returned, nbStrokes >>
    /\ UNCHANGED compositingVars

\* a faulty variant of reset, which leaves the strokes on the hidden canvas
resetKeepingCanvas ==
    /\ targetNbSegments' = Parameters.nbLines
    /\ pegsShape' = Parameters.shape
    /\ pegsSpacing' = Parameters.pegsSpacing
    /\ pegs' = computePegs(hiddenCanvas, Parameters.shape, Parameters.pegsSpacing)
    /\ tooCloseShape' = Parameters.shape
    /\ threadPegs' = <<>>
    /\ nbStrokes' = 0
    /\ UNCHANGED << hiddenCanvas, hiddenCanvasData >>

\* ThreadComputer.reset: its assignments, in its order
reset ==
    /\ targetNbSegments' = Parameters.nbLines
    /\ pegsShape' = Parameters.shape
    /\ pegsSpacing' = Parameters.pegsSpacing
    /\ pegs' = computePegs(hiddenCanvas, Parameters.shape, Parameters.pegsSpacing)
    /\ tooCloseShape' = Parameters.shape
    /\ threadPegs' = <<>>
    /\ hiddenCanvas' = resetHiddenCanvas(sourceImage, Parameters.invertColors)
    /\ nbStrokes' = 0
    /\ UNCHANGED hiddenCanvasData

\* a call of the public reset()
CallReset ==
    /\ pc = "idle" /\ nbOps < MaxOps
    /\ reset
    /\ nbOps' = nbOps + 1
    /\ lastOp' = Op("reset", nbSegments(threadPegs))
    /\ call' = NoCall /\ lastStep' = NoStep
    /\ UNCHANGED << Parameters, sourceImage, pc, maxMillisecondsTaken, elapsed,
                    returned >>
    /\ UNCHANGED compositingVars

\* faulty variants of the test below: one that never resets, one that resets
\* at the target too
ShouldResetNever == FALSE

ShouldResetAtTarget == nbSegments(threadPegs) >= Parameters.nbLines

\* a faulty variant of the test below, which tolerates one segment too many
ShouldResetLate == nbSegments(threadPegs) > Parameters.nbLines + 1

\* computeNextThreads, line 109: "if we draw too many lines already"
ShouldReset == nbSegments(threadPegs) > Parameters.nbLines

\* computeNextThreads(max) up to its while loop
BeginComputeNextThreads(max) ==
    /\ pc = "idle"
    /\ maxMillisecondsTaken' = max
    /\ elapsed' = 0
    /\ IF ShouldReset
       THEN reset
       ELSE /\ targetNbSegments' = Parameters.nbLines
            /\ UNCHANGED << pegsShape, pegsSpacing, pegs, tooCloseShape, threadPegs,
                            hiddenCanvas, hiddenCanvasData, nbStrokes >>
    /\ pc' = "loop"
    /\ call' = [nbSegments |-> nbSegments(threadPegs), nbLines |-> Parameters.nbLines,
                threadPegs |-> threadPegs, pegs |-> pegs, canvas |-> hiddenCanvas,
                cpuData |-> hiddenCanvasData, didReset |-> ShouldReset, nbSteps |-> 0,
                nbStrokes |-> 0, timedOut |-> FALSE]
    /\ lastOp' = Op("computeNextThreads", nbSegments(threadPegs))
    /\ lastStep' = NoStep
    /\ UNCHANGED << Parameters, sourceImage, returned >>
    /\ UNCHANGED compositingVars

\* a call of computeNextThreads, with any time budget
CallComputeNextThreads ==
    /\ nbOps < MaxOps
    /\ \E max \in Budgets : BeginComputeNextThreads(max)
    /\ nbOps' = nbOps + 1

\* a call of computeNextThreads by a scheduler that calls it again and again
\* (once per animation frame), with a positive time budget
SchedulerCall ==
    /\ \E max \in Budgets \ {0} : BeginComputeNextThreads(max)
    /\ UNCHANGED nbOps

\* faulty variants of the loop condition: one that forgets the time budget,
\* one that keeps drawing at the target
WhileConditionNoBudget(now) ==
    nbSegments(threadPegs) < targetNbSegments

WhileConditionPastTarget(now) ==
    nbSegments(threadPegs) <= targetNbSegments /\ now < maxMillisecondsTaken

\* a faulty variant of the loop condition, which stops one segment short
WhileConditionOneShort(now) ==
    /\ nbSegments(threadPegs) + 1 < targetNbSegments
    /\ now < maxMillisecondsTaken

\* the condition of the while loop, performance.now() - start being now
WhileCondition(now) ==
    nbSegments(threadPegs) < targetNbSegments /\ now < maxMillisecondsTaken

\* the value computeNextThreads returns
ReturnValue == nbSegments(threadPegs) >= targetNbSegments

\* a faulty variant of EndStep, whose stroke leaves the CPU copy in place
EndStepKeepingCache(kind, path, lastPeg, nextPeg, candidates, data) ==
    /\ threadPegs' = Append(path, nextPeg)
    /\ hiddenCanvas' = drawThreadOnHiddenCanvas(hiddenCanvas, pegs[lastPeg], pegs[nextPeg])
    /\ hiddenCanvasData' = << data >>
    /\ nbStrokes' = nbStrokes + 1
    /\ call' = [call EXCEPT !.nbSteps = @ + 1, !.nbStrokes = @ + 1]
    /\ lastStep' = [kind |-> kind, threadPegs |-> threadPegs,
                    candidates |-> candidates, data |-> data]
    /\ UNCHANGED << pc, returned >>

\* a faulty variant of EndStep, which pushes the peg and draws no thread
EndStepWithoutStroke(kind, path, lastPeg, nextPeg, candidates, data) ==
    /\ threadPegs' = Append(path, nextPeg)
    /\ hiddenCanvasData' = <<>>
    /\ call' = [call EXCEPT !.nbSteps = @ + 1]
    /\ lastStep' = [kind |-> kind, threadPegs |-> threadPegs,
                    candidates |-> candidates, data |-> data]
    /\ UNCHANGED << hiddenCanvas, nbStrokes, pc, returned >>

\* a faulty variant of EndStep, which keeps the last segment only
EndStepForgettingPath(kind, path, lastPeg, nextPeg, candidates, data) ==
    /\ threadPegs' = << lastPeg, nextPeg >>
    /\ hiddenCanvas' = drawThreadOnHiddenCanvas(hiddenCanvas, pegs[lastPeg], pegs[nextPeg])
    /\ hiddenCanvasData' = <<>>
    /\ nbStrokes' = nbStrokes + 1
    /\ call' = [call EXCEPT !.nbSteps = @ + 1, !.nbStrokes = @ + 1]
    /\ lastStep' = [kind |-> kind, threadPegs |-> threadPegs,
                    candidates |-> candidates, data |-> data]
    /\ UNCHANGED << pc, returned >>

\* a faulty variant of EndStep, in which the first Step pushes the second peg
\* of the starting thread only
EndStepWithoutFirstPeg(kind, path, lastPeg, nextPeg, candidates, data) ==
    /\ threadPegs' = Append(threadPegs, nextPeg)
    /\ hiddenCanvas' = drawThreadOnHiddenCanvas(hiddenCanvas, pegs[lastPeg], pegs[nextPeg])
    /\ hiddenCanvasData' = <<>>
    /\ nbStrokes' = nbStrokes + 1
    /\ call' = [call EXCEPT !.nbSteps = @ + 1, !.nbStrokes = @ + 1]
    /\ lastStep' = [kind |-> kind, threadPegs |-> threadPegs,
                    candidates |-> candidates, data |-> data]
    /\ UNCHANGED << pc, returned >>

\* computeThread ends normally: nextPeg is pushed and the thread is drawn
EndStep(kind, path, lastPeg, nextPeg, candidates, data) ==
    /\ threadPegs' = Append(path, nextPeg)
    /\ hiddenCanvas' = drawThreadOnHiddenCanvas(hiddenCanvas, pegs[lastPeg], pegs[nextPeg])
    /\ hiddenCanvasData' = <<>>
    /\ nbStrokes' = nbStrokes + 1
    /\ call' = [call EXCEPT !.nbSteps = @ + 1, !.nbStrokes = @ + 1]
    /\ lastStep' = [kind |-> kind, threadPegs |-> threadPegs,
                    candidates |-> candidates, data |-> data]
    /\ UNCHANGED << pc, returned >>

\* computeThread throws a TypeError, which ends computeNextThreads too
Throw(path, cpuData, candidates, data) ==
    /\ threadPegs' = path
    /\ hiddenCanvasData' = cpuData
    /\ pc' = "idle"
    /\ returned' = "TypeError"
    /\ lastStep' = [kind |-> "throw", threadPegs |-> threadPegs,
                    candidates |-> candidates, data |-> data]
    /\ UNCHANGED << hiddenCanvas, nbStrokes, call >>

\* ThreadComputer.computeThread
computeThread ==
    LET cpuData == uploadCanvasDataToCPU(hiddenCanvas, hiddenCanvasData)
        data == cpuData[1]
    IN IF Len(threadPegs) = 0
       THEN LET candidates == computeBestStartingThread(hiddenCanvas, data, pegs, tooCloseShape)
                evaluated == \E i, j \in 1..Len(pegs) :
                                i < j /\ ~arePegsTooClose(tooCloseShape, pegs[i], pegs[j])
            IN \E startingThread \in randomItem(candidates, NullThread) :
                  IF startingThread = NullThread
                  THEN \* startingThread.peg1: null has no property peg1
                       Throw(threadPegs, IF evaluated THEN cpuData ELSE hiddenCanvasData,
                             candidates, data)
                  ELSE EndStep("start", << startingThread.peg1 >>, startingThread.peg1,
                               startingThread.peg2, candidates, data)
       ELSE LET lastPeg == threadPegs[Len(threadPegs)]
            IN IF lastPeg = NullPeg
               THEN \* arePegsTooClose(currentPeg, peg) reads a property of null
                    Throw(IF Len(pegs) = 0 THEN Append(threadPegs, NullPeg) ELSE threadPegs,
                          hiddenCanvasData, <<>>, data)
               ELSE LET candidates == computeBestNextPeg(hiddenCanvas, data, pegs,
                                                         tooCloseShape, lastPeg)
                        evaluated == \E i \in 1..Len(pegs) :
                                        ~arePegsTooClose(tooCloseShape, pegs[lastPeg], pegs[i])
                    IN \E nextPeg \in randomItem(candidates, NullPeg) :
                          IF nextPeg = NullPeg
                          THEN \* pushed, then drawThreadOnHiddenCanvas reads peg2.x of null
                               Throw(Append(threadPegs, NullPeg),
                                     IF evaluated THEN cpuData ELSE hiddenCanvasData,
                                     candidates, data)
                          ELSE EndStep("next", threadPegs, lastPeg, nextPeg, candidates, data)

\* one turn of the while loop of computeNextThreads; when computeThread throws,
\* computeNextThreads ends and its locals are gone
LoopStep ==
    /\ pc = "loop"
    /\ \E now \in elapsed..MaxElapsed : WhileCondition(now)
    /\ computeThread
    /\ \E now \in elapsed..MaxElapsed :
          /\ WhileCondition(now)
          /\ elapsed' = IF pc' = "loop" THEN now ELSE 0
    /\ maxMillisecondsTaken' = IF pc' = "loop" THEN maxMillisecondsTaken ELSE 0
    /\ UNCHANGED << Parameters, sourceImage, targetNbSegments, pegsShape, pegsSpacing,
                    pegs, tooCloseShape, lastOp, nbOps >>
    /\ UNCHANGED compositingVars

\* the while loop ends and computeNextThreads returns; its locals are gone
Return ==
    /\ pc = "loop"
    /\ \E now \in elapsed..MaxElapsed :
          /\ ~WhileCondition(now)
          /\ call' = [call EXCEPT !.timedOut = (now >= maxMillisecondsTaken)]
    /\ returned' = IF ReturnValue THEN "true" ELSE "false"
    /\ pc' = "idle"
    /\ maxMillisecondsTaken' = 0
    /\ elapsed' = 0
    /\ UNCHANGED << Parameters, sourceImage, hiddenCanvas, hiddenCanvasData,
                    targetNbSegments, pegsShape, pegsSpacing, pegs, tooCloseShape,
                    threadPegs, lastStep, lastOp, nbStrokes, nbOps >>
    /\ UNCHANGED compositingVars

Next ==
    \/ SetNbLines
    \/ SetLayout
    \/ SetInvertColors
    \/ CallReset
    \/ CallComputeNextThreads
    \/ LoopStep
    \/ Return

Spec == Init /\ [][Next]_vars

\* The planner under a scheduler that never stops calling computeNextThreads:
\* the calls are not counted, the changes of configuration and the resets are
\* (at most MaxOps of them, after which the target is left unchanged).
SchedulerNext ==
    \/ SetNbLines
    \/ SetLayout
    \/ SetInvertColors
    \/ CallReset
    \/ SchedulerCall
    \/ LoopStep
    \/ Return

\* the while loop is at its condition and the condition holds at the time the
\* clock last showed: LoopStep is enabled in exactly these states
StepDue == pc = "loop" /\ WhileCondition(elapsed)
\* a transition that is a turn of the while loop
StepTaken == pc = "loop" /\ lastStep' # lastStep

\* The scheduler keeps calling and a running call goes on to its return (weak
\* fairness); a call does not always find its budget spent before its first
\* Step: LoopStep is strongly fair, SF_vars(LoopStep) written out with StepDue
\* for ENABLED <<LoopStep>>_vars.
SchedulerSpec ==
    /\ Init /\ [][SchedulerNext]_vars
    /\ WF_vars(SchedulerCall) /\ WF_vars(Return)
    /\ ([]<>StepDue => []<><<StepTaken>>_vars)

\* ----------------------------------------------- compositing.ts: actions
\* useAdvancedCompositing
useAdvancedCompositing == supportsAdvancedCompositing

\* computeRawColor
computeRawColor(color) ==
    IF color = MONOCHROME
    THEN [r |-> 1, g |-> 1, b |-> 1]
    ELSE [r |-> IF color = RED THEN 1 ELSE 0,
          g |-> IF color = GREEN THEN 1 ELSE 0,
          b |-> IF color = BLUE THEN 1 ELSE 0]

\* context.globalCompositeOperation = operation: a value the context does not
\* know is ignored
SetGlobalCompositeOperation(context, operation) ==
    IF operation \in context.supported
    THEN [context EXCEPT !.globalCompositeOperation = operation]
    ELSE context

\* resetCanvasCompositing
resetCanvasCompositing(context) == SetGlobalCompositeOperation(context, "source-over")

TargetOperation(operation) == IF operation = LIGHTEN THEN "lighter" ELSE "difference"
\* the stroke styles written: `rgb(r, g, b)` and `rgba(r, g, b, opacity)`
AdvancedStyle(color, opacity) ==
    LET value == Ceil(255 * opacity)
        rawRGB == computeRawColor(color)
    IN Style("rgb", << rawRGB.r * value, rawRGB.g * value, rawRGB.b * value >>)
BasicStyle(color, opacity, operation) ==
    LET value == IF operation = LIGHTEN THEN 255 ELSE 0
        rawRGB == computeRawColor(color)
    IN Style("rgba", << rawRGB.r * value, rawRGB.g * value, rawRGB.b * value, opacity >>)

\* a faulty variant of applyCanvasCompositing, which does not look at the flag
\* and tries the advanced operation every time
applyCanvasCompositingRetrying(c, color, opacity, operation) ==
    LET targetOperation == TargetOperation(operation)
        tried == SetGlobalCompositeOperation(contexts[c], targetOperation)
    IN IF tried.globalCompositeOperation = targetOperation
       THEN /\ contexts' = [contexts EXCEPT
                               ![c] = [tried EXCEPT !.strokeStyle = AdvancedStyle(color, opacity)]]
            /\ UNCHANGED << supportsAdvancedCompositing, errorMessages >>
       ELSE /\ supportsAdvancedCompositing' = FALSE
            /\ errorMessages' = Append(errorMessages, "advanced-compositing-not-supported")
            /\ contexts' = [contexts EXCEPT
                               ![c] = [resetCanvasCompositing(tried) EXCEPT
                                          !.strokeStyle = BasicStyle(color, opacity, operation)]]

\* applyCanvasCompositing(context, color, opacity, operation), c naming the context
applyCanvasCompositing(c, color, opacity, operation) ==
    LET targetOperation == TargetOperation(operation)
        tried == IF supportsAdvancedCompositing
                 THEN SetGlobalCompositeOperation(contexts[c], targetOperation)
                 ELSE contexts[c]
    IN IF supportsAdvancedCompositing /\ tried.globalCompositeOperation = targetOperation
       THEN \* success
            /\ contexts' = [contexts EXCEPT
                               ![c] = [tried EXCEPT !.strokeStyle = AdvancedStyle(color, opacity)]]
            /\ UNCHANGED << supportsAdvancedCompositing, errorMessages >>
       ELSE /\ IF supportsAdvancedCompositing
               THEN /\ supportsAdvancedCompositing' = FALSE
                    /\ errorMessages' = Append(errorMessages, "advanced-compositing-not-supported")
               ELSE UNCHANGED << supportsAdvancedCompositing, errorMessages >>
            \* basic compositing
            /\ contexts' = [contexts EXCEPT
                               ![c] = [resetCanvasCompositing(tried) EXCEPT
                                          !.strokeStyle = BasicStyle(color, opacity, operation)]]

\* a plotter calls applyCanvasCompositing
ApplyCanvasCompositing ==
    /\ nbApplied < MaxApplied
    /\ \E c \in ContextIds, color \in EColor, opacity \in Opacities,
          operation \in ECompositingOperation :
          /\ applyCanvasCompositing(c, color, opacity, operation)
          /\ lastApply' = [context |-> c, color |-> color, opacity |-> opacity,
                           operation |-> operation, advanced |-> useAdvancedCompositing]
    /\ nbApplied' = nbApplied + 1
    /\ UNCHANGED plannerVars

\* a plotter calls resetCanvasCompositing
ResetCanvasCompositing ==
    /\ \E c \in ContextIds :
          contexts' = [contexts EXCEPT ![c] = resetCanvasCompositing(contexts[c])]
    /\ UNCHANGED << supportsAdvancedCompositing, errorMessages, lastApply, nbApplied >>
    /\ UNCHANGED plannerVars

\* The compositing module with the contexts of any browser, beside a planner
\* that nothing calls.
CompositingInit ==
    /\ PlannerInit
    /\ sourceImage = Gray(1, 1) /\ Parameters.shape = RECTANGLE /\ Parameters.nbLines = 0
    /\ CompositingLoaded
    /\ contexts \in [ContextIds -> {NewContext(supported) : supported \in CompositeSupport}]

CompositingNext ==
    \/ ApplyCanvasCompositing
    \/ ResetCanvasCompositing

CompositingSpec == CompositingInit /\ [][CompositingNext]_vars

\* ------------------------------------------------------------- properties
\* a transition that is one turn of the while loop (a Step, completed or thrown)
IsStep == pc = "loop" /\ lastStep' # lastStep
\* a transition that is the return of computeNextThreads
IsReturn == pc = "loop" /\ pc' = "idle" /\ lastStep' = lastStep
\* the state is inside or after a call of computeNextThreads, nothing since
InCallOrAfter == lastOp.name = "computeNextThreads"
AfterReturn == InCallOrAfter /\ pc = "idle" /\ returned \in {"true", "false"}
IsPrefix(s, t) == Len(s) <= Len(t) /\ SubSeq(t, 1, Len(s)) = s

\* C1: computeNextThreads performs a Step only while the segment count is
\* below the target and the elapsed time is below the time budget; it returns
\* true exactly when the segment count is at least the target at the moment it
\* returns, so a false return means the budget ran out below the target.
C1_AdvanceContract ==
    [][ /\ IsStep =>
            /\ nbSegments(threadPegs) < targetNbSegments
            /\ elapsed < maxMillisecondsTaken
            /\ pc' = "loop" => elapsed' < maxMillisecondsTaken
        /\ IsReturn =>
            /\ returned' \in {"true", "false"}
            /\ returned' = "true" <=> nbSegments(threadPegs') >= targetNbSegments'
            /\ returned' = "false" =>
                   /\ call'.timedOut
                   /\ nbSegments(threadPegs') < targetNbSegments' ]_vars

\* C1 happens: a call drew a thread and still returned false, out of time
C1_Witness ==
    AfterReturn /\ returned = "false" /\ call.nbSteps > 0 /\ call.timedOut

\* C2: a call of computeNextThreads made when the segment count equals the
\* target, with any time budget, performs no Step and no stroke, leaves the
\* path, the pegs, the hidden canvas and the CPU copy as they were, and
\* returns true.
C2_IdempotentStall ==
    (InCallOrAfter /\ call.nbSegments = call.nbLines) =>
        /\ call.nbSteps = 0 /\ call.nbStrokes = 0 /\ ~call.didReset
        /\ lastStep = NoStep
        /\ threadPegs = call.threadPegs
        /\ pegs = call.pegs
        /\ hiddenCanvas = call.canvas
        /\ hiddenCanvasData = call.cpuData
        /\ pc = "idle" => returned = "true"

\* C2 happens: a call returned on a path that already held its target of one
\* or more threads
C2_Witness ==
    AfterReturn /\ call.nbSegments = call.nbLines /\ call.nbSegments > 0

\* reset has run and nothing was drawn since: after the public reset(), or in
\* a call of computeNextThreads that reset and completed no Step yet
ResetJustRan ==
    \/ lastOp.name = "reset"
    \/ InCallOrAfter /\ call.didReset /\ call.nbSteps = 0

\* C3: after reset, whatever was drawn before, the path is empty and the
\* segment count 0, the pegs are those of the configured shape and spacing,
\* and the hidden canvas is the one freshly made from the source image and
\* the invert flag, with no stroke on it and no CPU copy of older pixels.
C3_ResetClearsState ==
    ResetJustRan =>
        /\ threadPegs = <<>> /\ nbSegments(threadPegs) = 0
        /\ pegsShape = Parameters.shape /\ pegsSpacing = Parameters.pegsSpacing
        /\ tooCloseShape = Parameters.shape
        /\ targetNbSegments = Parameters.nbLines
        /\ pegs = computePegs(resetHiddenCanvas(sourceImage, Parameters.invertColors),
                              Parameters.shape, Parameters.pegsSpacing)
        /\ hiddenCanvas = resetHiddenCanvas(sourceImage, Parameters.invertColors)
        /\ nbStrokes = 0
        /\ hiddenCanvasData = <<>>

\* C3 happens: reset() was called on a path of one thread or more, after the
\* invert flag was switched
C3_Witness ==
    /\ lastOp.name = "reset" /\ lastOp.nbSegmentsBefore > 0
    /\ Parameters.invertColors

\* C4: a call of computeNextThreads made when the segment count is above
\* the configured target resets before any Step (empty path, fresh hidden
\* canvas), and then grows the path from empty towards the new target: the
\* path holds the Steps of this call only, the canvas their strokes only.
C4_OvershootResets ==
    (InCallOrAfter /\ call.nbSegments > call.nbLines) =>
        /\ call.didReset
        /\ targetNbSegments = call.nbLines
        /\ nbSegments(threadPegs) = call.nbSteps
        /\ nbSegments(threadPegs) <= call.nbLines
        /\ nbStrokes = call.nbStrokes
        /\ call.nbSteps = 0 =>
               /\ threadPegs = <<>>
               /\ hiddenCanvas = resetHiddenCanvas(sourceImage, Parameters.invertColors)
        /\ AfterReturn /\ ~call.timedOut => nbSegments(threadPegs) = call.nbLines

\* C4 happens: the target was lowered below the segment count, and the next
\* call reset and drew again
C4_Witness ==
    /\ AfterReturn /\ call.nbSegments > call.nbLines
    /\ call.nbSteps > 0 /\ returned = "true"

\* a transition that is a Step computeThread completed (it threw nothing)
IsCompletedStep == IsStep /\ lastStep'.kind \in {"start", "next"}

\* C5, as stated: every completed Step, from the empty path too, makes the
\* path one peg longer and adds one segment.
C5_OnePegPerStep ==
    [][ IsCompletedStep =>
            /\ Len(threadPegs') = Len(threadPegs) + 1
            /\ nbSegments(threadPegs') = nbSegments(threadPegs) + 1 ]_vars

\* C5, amended: every completed Step adds exactly one segment; it makes the
\* path one peg longer, except from the empty path, where it pushes the two
\* pegs of the starting thread.
C5_OneSegmentPerStep ==
    [][ IsCompletedStep =>
            /\ nbSegments(threadPegs') = nbSegments(threadPegs) + 1
            /\ Len(threadPegs') = Len(threadPegs) + (IF Len(threadPegs) = 0 THEN 2 ELSE 1) ]_vars

\* C5 happens: a first Step was completed on the empty path, and a next Step
\* on the path it left
C5_Witness ==
    /\ lastStep.kind = "next" /\ Len(lastStep.threadPegs) = 2
    /\ Len(threadPegs) = 3 /\ call.nbSteps = 2

\* C6, as stated: when no pair of pegs passes arePegsTooClose, a Step does
\* not crash and puts no null peg in the path; computeNextThreads returns
\* without having progressed (it reports false) and leaves the path as it was.
C6_DegenerateStall ==
    /\ returned # "TypeError"
    /\ lastStep.kind # "throw"
    /\ \A i \in 1..Len(threadPegs) : threadPegs[i] # NullPeg
    /\ (AfterReturn /\ lastStep.kind \in {"start", "next"}
          /\ lastStep.candidates = <<>>) =>
            (returned = "false" /\ threadPegs = lastStep.threadPegs)

\* The last Step, told from what it left: the peg it started from, the
\* candidates it had to consider, their scores on the pixels it read.
Range(list) == {list[i] : i \in 1..Len(list)}
LastStepCurrentPeg == lastStep.threadPegs[Len(lastStep.threadPegs)]
\* the segment the last Step chose, and that segment as the candidate it was
LastStepChosenSegment ==
    [peg1 |-> threadPegs[Len(threadPegs) - 1], peg2 |-> threadPegs[Len(threadPegs)]]
LastStepChosen ==
    IF lastStep.kind = "start" THEN LastStepChosenSegment ELSE LastStepChosenSegment.peg2
\* the valid candidates: as threads (pairs of pegs) on the empty path, as
\* pegs otherwise
ValidCandidates ==
    IF lastStep.kind = "start"
    THEN {t \in [peg1 : 1..Len(pegs), peg2 : 1..Len(pegs)] :
            t.peg1 < t.peg2 /\ ~arePegsTooClose(tooCloseShape, pegs[t.peg1], pegs[t.peg2])}
    ELSE {i \in 1..Len(pegs) :
            ~arePegsTooClose(tooCloseShape, pegs[LastStepCurrentPeg], pegs[i])}
ScoreOf(candidate) ==
    IF lastStep.kind = "start"
    THEN computeThreadPotential(hiddenCanvas, lastStep.data,
                                pegs[candidate.peg1], pegs[candidate.peg2])
    ELSE computeThreadPotential(hiddenCanvas, lastStep.data,
                                pegs[LastStepCurrentPeg], pegs[candidate])
\* every valid candidate with its score
ScoredCandidates == {<< c, ScoreOf(c) >> : c \in ValidCandidates}
\* those of a set of scored candidates whose score is the maximum
BestOf(scored) == {p \in scored : \A q \in scored : q[2].v <= p[2].v}

\* C7: in every completed Step, the chosen segment scores at least as much
\* as every valid (not too close) candidate, the candidates being all the
\* pairs of pegs on the empty path and all the pegs paired with the last peg
\* of the path otherwise; the list the winner is drawn from holds exactly the
\* valid candidates whose score is the maximum, each once.
C7_ScoreOptimality ==
    lastStep.kind \in {"start", "next"} =>
        LET scored == ScoredCandidates
            best == BestOf(scored)
        IN /\ \A p \in scored : ~p[2].nan
           /\ \E p \in scored :
                 /\ p[1] = LastStepChosen
                 /\ \A q \in scored : q[2].v <= p[2].v
           /\ Range(lastStep.candidates) = {p[1] : p \in best}
           /\ Len(lastStep.candidates) = Cardinality(best)
           /\ LastStepChosen \in Range(lastStep.candidates)

\* C7 happens: a Step drew its winner among several tied candidates, other
\* valid candidates having scored less
C7_Witness ==
    /\ lastStep.kind \in {"start", "next"}
    /\ Len(lastStep.candidates) > 1
    /\ Len(lastStep.candidates) < Cardinality(ValidCandidates)

\* C8: for both shapes and all pegs a, b of the layout, arePegsTooClose(a, b)
\* equals arePegsTooClose(b, a), and arePegsTooClose(a, a) is true.
C8_TooCloseSymmetricReflexive ==
    \A a, b \in Range(pegs) :
        /\ arePegsTooClose(tooCloseShape, a, b) <=> arePegsTooClose(tooCloseShape, b, a)
        /\ arePegsTooClose(tooCloseShape, a, a)

\* C8 happens: a circle of pegs with two distinct pegs too close to each other
\* and two pegs that are not
C8_Witness ==
    /\ tooCloseShape = CIRCLE
    /\ \E a, b \in Range(pegs) : a # b /\ arePegsTooClose(tooCloseShape, a, b)
    /\ \E a, b \in Range(pegs) : ~arePegsTooClose(tooCloseShape, a, b)

\* what C9 says of the rectangle layout of a domain and a spacing
Corners(domainSize) ==
    << [x |-> 0, y |-> 0],
       [x |-> (domainSize.width - 1) * FP, y |-> 0],
       [x |-> (domainSize.width - 1) * FP, y |-> (domainSize.height - 1) * FP],
       [x |-> 0, y |-> (domainSize.height - 1) * FP] >>
NbInteriorPegs(domainSize, spacing) ==
    2 * (CeilDiv(domainSize.width, spacing) - 1)
    + 2 * (CeilDiv(domainSize.height, spacing) - 1)
IsRectangleLayout(domainSize, spacing, layout) ==
    /\ Len(layout) = 4 + NbInteriorPegs(domainSize, spacing)
    /\ SubSeq(layout, 1, 4) = Corners(domainSize)
    /\ \A i \in 5..Len(layout) : layout[i] \notin Range(Corners(domainSize))
                                    \/ domainSize.width = 1 \/ domainSize.height = 1
    /\ \A i \in 1..Len(layout) :
          /\ 0 <= layout[i].x /\ layout[i].x <= (domainSize.width - 1) * FP
          /\ 0 <= layout[i].y /\ layout[i].y <= (domainSize.height - 1) * FP

\* C9: the rectangle layout of a domain W x H and a spacing s holds the four
\* corners (0,0), (W-1,0), (W-1,H-1), (0,H-1) and 2*(ceil(W/s)-1) +
\* 2*(ceil(H/s)-1) interior pegs, every peg within [0,W-1] x [0,H-1]; for
\* 256 x 256 and spacing 32 that is 32 pegs.
C9_RectangleLayout ==
    /\ pegsShape = RECTANGLE => IsRectangleLayout(hiddenCanvas, pegsSpacing, pegs)
    /\ \A spacing \in 1..(HIDDEN_CANVAS_SIZE + 1) :
          IsRectangleLayout(hiddenCanvas, spacing,
                            computePegs(hiddenCanvas, RECTANGLE, spacing))
    /\ Len(computePegs([width |-> 256, height |-> 256], RECTANGLE, 32)) = 32

\* C9 happens: a rectangle layout with interior pegs on its four sides
C9_Witness ==
    /\ pegsShape = RECTANGLE
    /\ CeilDiv(hiddenCanvas.width, pegsSpacing) > 1
    /\ CeilDiv(hiddenCanvas.height, pegsSpacing) > 1
    /\ hiddenCanvas.width # hiddenCanvas.height
    /\ Len(pegs) > 4

\* C10: a call of computeNextThreads made when the segment count is at most
\* the configured target does not reset: the pegs stay the same, and the path
\* held at the call is a prefix of the path during and after the call.
C10_ContinuesFromCurrentState ==
    (InCallOrAfter /\ call.nbSegments <= call.nbLines) =>
        /\ ~call.didReset
        /\ pegs = call.pegs
        /\ IsPrefix(call.threadPegs, threadPegs)
        /\ Len(threadPegs) - Len(call.threadPegs) \in {call.nbSteps, call.nbSteps + 1}
        /\ call.nbSteps = 0 => hiddenCanvas = call.canvas

\* C10 happens: the target was raised above the segment count of a path in
\* progress, and the next call drew on
C10_Witness ==
    /\ AfterReturn /\ call.nbSegments > 0 /\ call.nbSegments < call.nbLines
    /\ call.nbSteps > 0

\* the hidden canvas as it was when the last Step read its pixels, going by
\* the pixels the Step read
CanvasLastStepRead == [hiddenCanvas EXCEPT !.data = lastStep.data]

\* C11: in every reachable state the CPU copy of the pixels
\* (hiddenCanvasData) is null or equal to the pixels of the hidden canvas;
\* the pixels a Step scored on were those of the canvas at that time (the
\* canvas now is that one plus the Step's stroke), and the stroke and the
\* reset of the canvas leave the copy null.
C11_CacheNeverStale ==
    /\ hiddenCanvasData = <<>> \/ hiddenCanvasData = << hiddenCanvas.data >>
    /\ lastStep.kind \in {"start", "next"} =>
          /\ hiddenCanvasData = <<>>
          /\ hiddenCanvas = drawThreadOnHiddenCanvas(CanvasLastStepRead,
                                 pegs[LastStepChosenSegment.peg1],
                                 pegs[LastStepChosenSegment.peg2])
    /\ lastStep.kind = "start" =>
          CanvasLastStepRead \in {resetHiddenCanvas(sourceImage, invert) : invert \in BOOLEAN}
    /\ ResetJustRan => hiddenCanvasData = <<>>

\* C11 happens: a Step read pixels that carried an earlier stroke, then drew
\* its own, which changed pixels
C11_Witness ==
    /\ lastStep.kind = "next" /\ nbStrokes >= 2
    /\ \A invert \in BOOLEAN :
          lastStep.data # resetHiddenCanvas(sourceImage, invert).data
    /\ hiddenCanvas.data # lastStep.data
    /\ hiddenCanvasData = <<>>

\* a canvas after the threads of the first n segments of a path were drawn on
\* it, in the order of the path (a null peg ends no thread: drawing it throws)
RECURSIVE DrawPath(_, _, _)
DrawPath(canvas, path, n) ==
    IF n <= 0 THEN canvas
    ELSE LET before == DrawPath(canvas, path, n - 1)
         IN IF path[n] = NullPeg \/ path[n + 1] = NullPeg THEN before
            ELSE drawThreadOnHiddenCanvas(before, pegs[path[n]], pegs[path[n + 1]])

\* C12: each Step draws exactly one thread, from the peg that was last to the
\* peg it pushes, before a later Step scores anything: the number of strokes
\* on the canvas since it was last initialised equals the segment count, the
\* canvas is the initial one with the threads of all the segments of the path
\* drawn in order, and the pixels a Step scored on were the initial canvas
\* with the threads of all the segments the path then held.
C12_StrokeBeforeScore ==
    /\ nbStrokes = nbSegments(threadPegs)
    /\ \E invert \in BOOLEAN :
          LET initial == resetHiddenCanvas(sourceImage, invert)
          IN /\ hiddenCanvas = DrawPath(initial, threadPegs, nbSegments(threadPegs))
             /\ lastStep.kind \in {"start", "next"} =>
                   /\ lastStep.data = DrawPath(initial, lastStep.threadPegs,
                                               nbSegments(lastStep.threadPegs)).data
                   /\ nbSegments(threadPegs) = nbSegments(lastStep.threadPegs) + 1
                   /\ IsPrefix(lastStep.threadPegs, threadPegs)

\* C12 happens: the second Step of a path scored on pixels that held the
\* stroke of the first, and the canvas holds both strokes
C12_Witness ==
    /\ lastStep.kind = "next" /\ nbSegments(lastStep.threadPegs) = 1
    /\ nbStrokes = 2 /\ nbSegments(threadPegs) = 2
    /\ lastStep.data = DrawPath(resetHiddenCanvas(sourceImage, FALSE),
                                lastStep.threadPegs, 1).data
    /\ lastStep.data # resetHiddenCanvas(sourceImage, FALSE).data

\* C13: in every reachable state each entry of the path is a peg of the
\* layout the planner holds, and every two consecutive entries are distinct
\* pegs, at distinct points, not too close under the predicate of that layout.
C13_SegmentsAreValidPairs ==
    /\ \A i \in 1..Len(threadPegs) : threadPegs[i] \in 1..Len(pegs)
    /\ \A i \in 1..(Len(threadPegs) - 1) :
          LET peg1 == pegs[threadPegs[i]]
              peg2 == pegs[threadPegs[i + 1]]
          IN /\ threadPegs[i] # threadPegs[i + 1]
             /\ peg1.x # peg2.x \/ peg1.y # peg2.y
             /\ ~arePegsTooClose(tooCloseShape, peg1, peg2)
             /\ ~arePegsTooClose(tooCloseShape, peg2, peg1)

\* C13 happens: a path of two segments on a layout that has distinct pegs
\* too close to each other
C13_Witness ==
    /\ Len(threadPegs) = 3
    /\ \E i, j \in 1..Len(pegs) :
          i # j /\ arePegsTooClose(tooCloseShape, pegs[i], pegs[j])

\* a transition in which reset ran: the public reset(), or the reset
\* computeNextThreads makes first
IsReset ==
    /\ nbOps' = nbOps + 1
    /\ \/ lastOp'.name = "reset"
       \/ lastOp'.name = "computeNextThreads" /\ call'.didReset
\* the layout the planner holds: pegs, shape, spacing, proximity predicate
layout == << pegs, pegsShape, pegsSpacing, tooCloseShape >>

\* C14: a Step removes or alters no entry of the path (the path before it is
\* a prefix of the path after it) and changes neither the pegs nor the shape,
\* the spacing or the proximity predicate; only a transition in which reset
\* runs replaces the layout or takes entries away from the path.
C14_AppendOnlyBetweenResets ==
    [][ /\ IsStep => IsPrefix(threadPegs, threadPegs') /\ layout' = layout
        /\ ~IsPrefix(threadPegs, threadPegs') => IsReset /\ threadPegs' = <<>>
        /\ layout' # layout => IsReset
        /\ threadPegs' # threadPegs /\ ~IsReset => IsStep ]_vars

\* C14 happens: a Step appended a peg to a path of one segment, whose two
\* pegs stayed in place, on the layout the call found
C14_Witness ==
    /\ InCallOrAfter /\ lastStep.kind = "next"
    /\ Len(lastStep.threadPegs) = 2 /\ Len(threadPegs) = 3
    /\ SubSeq(threadPegs, 1, 2) = lastStep.threadPegs
    /\ pegs = call.pegs /\ ~call.didReset

\* the layout in use has two pegs that a thread may join
HasValidPair ==
    \E i, j \in 1..Len(pegs) : ~arePegsTooClose(tooCloseShape, pegs[i], pegs[j])

\* C15: under a scheduler that keeps calling computeNextThreads with a
\* positive time budget, each call getting to a Step when one is due, if from
\* some point on the layout in use has a pair of pegs that are not too close
\* (the configuration changes finitely often), then from some point on every
\* call returns true, and calls do go on returning.
C15_EventualCompletion ==
    <>[]HasValidPair =>
        /\ <>[](AfterReturn => returned = "true")
        /\ []<>(AfterReturn /\ returned = "true")

\* C15 happens: a call that found a path in progress, left by an earlier call
\* that ran out of time, took a Step and returned true at a positive target
C15_Witness ==
    /\ AfterReturn /\ returned = "true" /\ HasValidPair
    /\ ~call.didReset /\ call.nbSegments >= 1 /\ call.nbSteps >= 1
    /\ nbSegments(threadPegs) = call.nbLines /\ call.nbLines = MaxLines


\* the valid continuations from a peg: the pegs not too close to it
ValidNextPegs(currentPeg) ==
    {i \in 1..Len(pegs) : ~arePegsTooClose(tooCloseShape, pegs[currentPeg], pegs[i])}

\* C16: once a first Step has succeeded, continuation never stalls before the
\* next reset: the path holds no null peg, the peg before the last one is a
\* valid continuation from the last one, so every later Step had candidates
\* (the peg it came from among the valid ones), and a Step throws only on the
\* empty path.
C16_ContinuationNeverStalls ==
    /\ \A i \in 1..Len(threadPegs) : threadPegs[i] # NullPeg
    /\ Len(threadPegs) >= 2 =>
          threadPegs[Len(threadPegs) - 1] \in ValidNextPegs(threadPegs[Len(threadPegs)])
    /\ lastStep.kind = "next" =>
          /\ lastStep.candidates # <<>>
          /\ \A i \in 1..Len(lastStep.candidates) : lastStep.candidates[i] # NullPeg
          /\ lastStep.threadPegs[Len(lastStep.threadPegs) - 1] \in ValidNextPegs(LastStepCurrentPeg)
    /\ lastStep.kind = "throw" => lastStep.threadPegs = <<>> /\ threadPegs = <<>>

\* C16 happens: a Step after the first had the peg it came from as its only
\* candidate, and went back to it
C16_Witness ==
    /\ lastStep.kind = "next" /\ Len(threadPegs) = 3
    /\ ValidNextPegs(LastStepCurrentPeg) = {threadPegs[1]}
    /\ lastStep.candidates = << threadPegs[1] >>
    /\ threadPegs[3] = threadPegs[1]


\* C17: no overshoot.  The segment count never exceeds targetNbSegments; inside
\* a call and after its normal return targetNbSegments is Parameters.nbLines as
\* the call read it, so the count is at most the configured target; the count
\* exceeds the configured target only between calls, after the configuration
\* was lowered below the target the planner had recorded.
C17_NoOvershoot ==
    /\ nbSegments(threadPegs) <= targetNbSegments
    /\ pc = "loop" \/ AfterReturn =>
          /\ targetNbSegments = call.nbLines
          /\ call.nbLines = Parameters.nbLines
          /\ nbSegments(threadPegs) <= Parameters.nbLines
    /\ nbSegments(threadPegs) > Parameters.nbLines =>
          /\ pc = "idle" /\ lastOp.name = "config"
          /\ Parameters.nbLines < targetNbSegments

\* C17 happens: a call found more segments than the lowered target, and
\* returned true with the count at that target, one segment or more
C17_Witness ==
    /\ AfterReturn /\ returned = "true"
    /\ call.nbSegments > call.nbLines /\ call.didReset
    /\ call.nbLines >= 1 /\ nbSegments(threadPegs) = targetNbSegments


\* C18: the first Step on the empty path appends both pegs of the starting
\* thread at once (path length 0 -> 2, segment count 0 -> 1); the path length
\* is never 1, and the segment count is the path length minus one whenever the
\* path is not empty; a Step that throws on the empty path leaves it empty.
C18_PathLengthNeverOne ==
    /\ Len(threadPegs) # 1
    /\ threadPegs # <<>> => nbSegments(threadPegs) = Len(threadPegs) - 1
    /\ lastStep.kind = "start" =>
          /\ lastStep.threadPegs = <<>>
          /\ Len(threadPegs) = 2 /\ nbSegments(threadPegs) = 1
          /\ \E startingThread \in Range(lastStep.candidates) :
                threadPegs = << startingThread.peg1, startingThread.peg2 >>
    /\ lastStep.kind = "next" => Len(lastStep.threadPegs) >= 2
    /\ lastStep.kind = "throw" => threadPegs = <<>>

\* C18 happens: the first Step of a call that found the path empty has just
\* run, the call is still in its loop, and the path holds two distinct pegs
C18_Witness ==
    /\ pc = "loop" /\ lastStep.kind = "start"
    /\ call.threadPegs = <<>> /\ call.nbSteps = 1
    /\ Len(threadPegs) = 2 /\ threadPegs[1] # threadPegs[2]


\* a transition that is a call of applyCanvasCompositing
IsApply == nbApplied' = nbApplied + 1
\* the context the last applyCanvasCompositing was given
AppliedContext == contexts[lastApply.context]

\* C19: the compositing fallback is a one-way latch.  The flag
\* supportsAdvancedCompositing is true until a call of applyCanvasCompositing
\* finds that its context rejected the requested operation; that call makes
\* it false and reports the error message, and nothing makes it true again;
\* a call that ends with the flag false leaves its context in "source-over"
\* with an rgba stroke style of the given opacity; the message is reported at
\* most once.
C19_CompositingLatch ==
    [][ /\ nbApplied = 0 => supportsAdvancedCompositing
        /\ ~supportsAdvancedCompositing => ~supportsAdvancedCompositing'
        /\ supportsAdvancedCompositing /\ ~supportsAdvancedCompositing' =>
              /\ IsApply
              /\ TargetOperation(lastApply'.operation)
                    \notin contexts[lastApply'.context].supported
              /\ errorMessages' = << "advanced-compositing-not-supported" >>
        /\ IsApply /\ supportsAdvancedCompositing' =>
              AppliedContext'.globalCompositeOperation = TargetOperation(lastApply'.operation)
        /\ IsApply /\ ~supportsAdvancedCompositing' =>
              /\ AppliedContext'.globalCompositeOperation = "source-over"
              /\ AppliedContext'.strokeStyle.fn = "rgba"
              /\ AppliedContext'.strokeStyle.args[4] = lastApply'.opacity
        /\ errorMessages' # errorMessages =>
              supportsAdvancedCompositing /\ ~supportsAdvancedCompositing'
        /\ Len(errorMessages') <= 1 ]_vars

\* C19 happens: after a call whose context rejected the operation, a later
\* call was made with the flag false on a context that knows the operation
\* asked for, and left it in "source-over" with an rgba style; one message
C19_Witness ==
    /\ ~supportsAdvancedCompositing /\ nbApplied = 2 /\ ~lastApply.advanced
    /\ TargetOperation(lastApply.operation) \in AppliedContext.supported
    /\ AppliedContext.globalCompositeOperation = "source-over"
    /\ AppliedContext.strokeStyle = Style("rgba", << 255, 0, 0, LINE_OPACITY >>)
    /\ Len(errorMessages) = 1

=============================================================================
